---- MODULE Spec2Model ----
(***************************************************************************)
(* Cashflow Foundation (src/src/App.jsx): the App component's state, the   *)
(* Working Capital and Cash Flow tools, and the per-user load / debounced  *)
(* save of the state document.                                             *)
(*                                                                         *)
(* Numbers.  Money is kept in hundredths of a currency unit, so that       *)
(* givingPercent/100 * inflow is exact for whole percents and whole-unit   *)
(* inflows; USD(n) is n whole units.  The working-capital figures are      *)
(* exact rationals [n, d] (the code divides by daysPerMonth).  IEEE-754    *)
(* rounding of the JavaScript doubles is not modelled.                     *)
(*                                                                         *)
(* Text.  Every input field holds text: [k, v] with k the shape of the     *)
(* text ("empty", "plain" digits, digits with "commas", or "junk" such as  *)
(* "1.2.3") and v the number the digits spell.  toNumber and Str are the   *)
(* two conversions; Str(toNumber(t)) = t only for plain text.              *)
(***************************************************************************)
EXTENDS Integers, Sequences, FiniteSets, TLC

VARIABLES
    state,       \* React state of App (line 994): the AllocationState document
    session,     \* React state `session` (line 991): NoSession or a user id
    signingOut,  \* signOut() is suspended at its await (line 1068)
    saveStatus,  \* React state `saveStatus` (line 993)
    timer,       \* the pending setTimeout of the save effect (line 1056)
    loads,       \* select requests in flight (lines 1029-1033)
    writes,      \* upsert requests in flight (lines 1045, 1059)
    store,       \* table cashflow_states: user id -> stored document
    idSeq,       \* ids handed out by makeId so far
    dirty,       \* top-level fields the user changed since the last sign-in
    last,        \* the operation that produced this state, with what it saw
    steps        \* user operations still allowed (the bound of a run)

vars == <<state, session, signingOut, saveStatus, timer, loads, writes, store,
          idSeq, dirty, last, steps>>

\* ------------------------------------------------------------------ bounds
MaxSteps == 2
MaxCfSteps == 4
MaxWcSteps == 1
MaxNeeds == 3
MaxLoads == 1
MaxWrites == 1
MaxSaveSteps == 3
MaxHoSteps == 3
MaxShift == 30
MaxYears == 2
MaxInFlight == 2

\* ------------------------------------------------------------ small helpers
Min(a, b) == IF a <= b THEN a ELSE b
Max(a, b) == IF a >= b THEN a ELSE b

RECURSIVE Gcd(_, _)
Gcd(a, b) == IF b = 0 THEN a ELSE Gcd(b, a % b)

RECURSIVE SumSeq(_)
SumSeq(s) == IF s = <<>> THEN 0 ELSE Head(s) + SumSeq(Tail(s))

USD(n) == 100 * n

\* ------------------------------------------------------------------- text
Empty == [k |-> "empty", v |-> 0]
Plain(n) == [k |-> "plain", v |-> n]
Commas(n) == [k |-> "commas", v |-> n]
Junk == [k |-> "junk", v |-> 0]

\* toNumber (lines 27-30): commas are stripped; "" is Number("") = 0; text
\* that is not a number is NaN, which is not finite, so 0.
toNumber(t) == IF t.k \in {"plain", "commas"} THEN t.v ELSE 0

\* String(n) of a number (lines 699, 759): plain digits, never empty.
Str(n) == Plain(n)

\* --------------------------------------------------------------- calendar
Month(y, m) == [y |-> y, m |-> m]

\* monthOptions (lines 40-44): January..December of startYear, in order.
monthOptions(startYear) == [i \in 1..12 |-> Month(startYear, i)]

monthAddNoCarry(yyyymm, add) == Month(yyyymm.y, yyyymm.m + add)

\* monthAdd (lines 46-51): Date(y, m-1, 1).setMonth(getMonth() + add)
\* normalises the month index into 0..11 and carries into the year.
monthAdd(yyyymm, add) ==
    LET total == yyyymm.y * 12 + (yyyymm.m - 1) + add
    IN  Month(total \div 12, (total % 12) + 1)

\* monthDiff (lines 53-57)
monthDiff(a, b) == (b.y - a.y) * 12 + (b.m - a.m)

\* -------------------------------------------------------------- app state
Users == {"A", "B"}
NoSession == "none"

Tools == {"home", "workingCapital", "cashflow"}

\* A number held in the state: the exact rational n/d, in lowest terms.
Rat(n, d) == LET g == Gcd(n, d) IN [n |-> n \div g, d |-> d \div g]

Unset == "unset"

\* transferDone (lines 245-247): { [month]: { [tool]: { [key]: boolean } } },
\* held as the function from the <<month, tool, key>> present to their flags.
NoFlags == <<>>

Need(id, name, target, dueMonth, funded, status) ==
    [id |-> id, name |-> name, target |-> target, dueMonth |-> dueMonth,
     funded |-> funded, status |-> status, paidMonth |-> Unset]

\* defaultState (lines 239-273)
defaultState ==
    [month |-> Month(2026, 2),
     activeTool |-> "home",
     suggestedBusinessIn |-> Rat(0, 1),
     transferDone |-> NoFlags,
     workingCapital |->
        [operatingExpenses |-> Empty, inventoryCost |-> Empty,
         daysPerMonth |-> Empty, avgCollectionDays |-> Empty,
         businessChecking |-> Empty, reserveAccountBalance |-> Empty,
         bufferDays |-> Empty, reserveDays |-> Empty],
     cashflow |->
        [businessIn |-> Empty, w2In |-> Empty, givingIsDollar |-> TRUE,
         givingPercent |-> Empty, givingDollar |-> Empty,
         lifestyleMonthly |-> Empty,
         needs |-> << Need(1, "Taxes", Plain(USD(12000)), Month(2026, 4), Plain(0), "open"),
                      Need(2, "Trip", Plain(USD(8000)), Month(2026, 6), Plain(0), "open") >>]]

\* ---------------------------------------------- Working Capital (442-465)
\* Every figure below is a numerator over the common denominator wcDen.
wcDen(wc) == IF toNumber(wc.daysPerMonth) > 0 THEN toNumber(wc.daysPerMonth) ELSE 1

monthlySpend(wc) == toNumber(wc.operatingExpenses) + toNumber(wc.inventoryCost)

\* perDay * wcDen: monthlySpend / daysPerMonth, or 0 when daysPerMonth is not > 0
perDay(wc) == IF toNumber(wc.daysPerMonth) > 0 THEN monthlySpend(wc) ELSE 0

wcGoal(wc) == perDay(wc) * toNumber(wc.bufferDays)

reserveGoal(wc) == perDay(wc) * toNumber(wc.reserveDays)

businessBalance(wc) == toNumber(wc.businessChecking) * wcDen(wc)

reserveBalance(wc) == toNumber(wc.reserveAccountBalance) * wcDen(wc)

businessShortOrExcess(wc) == businessBalance(wc) - wcGoal(wc)

availableFromBusinessUnclamped(wc) == businessShortOrExcess(wc)

availableFromBusiness(wc) == Max(0, businessShortOrExcess(wc))

reserveShort(wc) == Max(0, reserveGoal(wc) - reserveBalance(wc))

moveToReserveUncapped(wc) == reserveShort(wc)

moveToReserve(wc) == Min(availableFromBusiness(wc), reserveShort(wc))

moveToFamilyOffice(wc) == Max(0, availableFromBusiness(wc) - moveToReserve(wc))

\* the value handed to onSuggestBusinessIn (line 461)
suggestedFrom(wc) ==
    IF moveToFamilyOffice(wc) > 0 THEN Rat(moveToFamilyOffice(wc), wcDen(wc)) ELSE Rat(0, 1)

\* ---------------------------------------------------- Cash Flow (703-730)
inflow(cf) == toNumber(cf.businessIn) + toNumber(cf.w2In)

\* givingPercent is a whole percent and the inflow whole units, so the
\* division by 100 is exact in hundredths.
givingAmount(cf) ==
    IF cf.givingIsDollar
    THEN Min(toNumber(cf.givingDollar), inflow(cf))
    ELSE (toNumber(cf.givingPercent) * inflow(cf)) \div 100

emergencyHeldInFO(cf) == 1 * toNumber(cf.lifestyleMonthly)

lifestyleTargetBalance(cf) == 2 * toNumber(cf.lifestyleMonthly)

inWindowPastDue(month, n) ==
    /\ n.status = "open"
    /\ monthDiff(month, n.dueMonth) <= 5

\* inWindow (lines 712-716)
inWindow(month, n) ==
    /\ n.status = "open"
    /\ monthDiff(month, n.dueMonth) >= 0
    /\ monthDiff(month, n.dueMonth) <= 5

activeNeedsAll(cf) == cf.needs

\* activeNeeds (line 718)
activeNeeds(cf) == SelectSeq(cf.needs, LAMBDA n : n.status = "open")

\* windowNeeds (line 719)
windowNeeds(month, cf) == SelectSeq(cf.needs, LAMBDA n : inWindow(month, n))

remainingOf(n) == Max(0, toNumber(n.target) - toNumber(n.funded))

\* totalReservedOpen (line 721)
totalReservedOpen(cf) ==
    LET a == activeNeeds(cf)
    IN  SumSeq([i \in 1..Len(a) |-> toNumber(a[i].funded)])

\* remainingTotal (lines 723-726)
remainingTotal(month, cf) ==
    LET w == windowNeeds(month, cf)
    IN  SumSeq([i \in 1..Len(w) |-> remainingOf(w[i])])

availableAfterRequired(cf) ==
    inflow(cf) - givingAmount(cf) - toNumber(cf.lifestyleMonthly)

allocateToNeedsNoFloor(month, cf) ==
    Min(availableAfterRequired(cf), remainingTotal(month, cf))

allocateToNeeds(month, cf) ==
    Max(0, Min(availableAfterRequired(cf), remainingTotal(month, cf)))

excess(month, cf) == availableAfterRequired(cf) - allocateToNeeds(month, cf)

\* ------------------------------------------------------------ the effects
roundUnitsDown(r) == r.n \div (100 * r.d)

\* Math.round of a non-negative rational of hundredths, in whole units
\* (line 699): floor(x + 1/2).
roundUnits(r) == (2 * r.n + 100 * r.d) \div (200 * r.d)

\* CashflowTool's prefill effect (lines 697-701).  suggestedBusinessIn is
\* always finite and >= 0 here, so the guard of line 698 always passes.
prefill(s) ==
    [s EXCEPT !.cashflow.businessIn = Str(USD(roundUnits(s.suggestedBusinessIn)))]

\* WorkingCapitalTool's effect (lines 460-462) through onSuggestBusinessIn
\* (line 1158).
suggest(s) == [s EXCEPT !.suggestedBusinessIn = suggestedFrom(s.workingCapital)]

\* The state once the mounted tool's effect has run.  setCf and
\* onSuggestBusinessIn are new closures on every render of App (lines 1158,
\* 1174) and are dependencies of the effects (lines 462, 701), so the effect
\* of the mounted tool runs after every render; the tools are rendered only
\* with a session (line 1074).
Render(s, sess) ==
    IF sess = NoSession THEN s
    ELSE IF s.activeTool = "workingCapital" THEN suggest(s)
    ELSE IF s.activeTool = "cashflow" THEN prefill(s)
    ELSE s

NoTimer == [user |-> NoSession, doc |-> <<>>]

saveEffectKeepsOld(s, sess) ==
    IF sess = NoSession THEN NoTimer
    ELSE IF timer # NoTimer THEN timer
    ELSE [user |-> sess, doc |-> s]

\* The save effect (lines 1052-1064) after a render with a new `state` or
\* `session`: the cleanup clears the old timer, and with a session a new
\* one is armed that holds this render's state and user.
saveEffect(s, sess) ==
    IF sess = NoSession THEN NoTimer ELSE [user |-> sess, doc |-> s]

\* setState(s) under session sess, with everything the render brings.
Commit(s, sess) ==
    /\ state' = Render(s, sess)
    /\ timer' = saveEffect(Render(s, sess), sess)

NoPre == <<>>

Did(op, pre, arg) == [op |-> op, pre |-> pre, arg |-> arg]

\* A user operation on the signed-in screen: setState, then the save
\* effect's "Saving" status (line 1055).
UserOp(op, s, pre, arg) ==
    /\ session # NoSession
    /\ steps > 0
    /\ Commit(s, session)
    /\ saveStatus' = "Saving"
    /\ dirty' = dirty \cup {f \in DOMAIN state : state'[f] # state[f]}
    /\ steps' = steps - 1
    /\ last' = Did(op, pre, arg)
    /\ UNCHANGED <<session, signingOut, loads, writes, store>>

\* --------------------------------------------------------- input widgets
\* MoneyInput (line 73) keeps digits, "." and ",": every text shape of the
\* model is made of these and passes unchanged.
MoneyInput(raw) == raw

PercentInputNoClamp(raw) == Str(toNumber(raw))

\* PercentInput (lines 88-92): digits and "." are kept, Number(v || 0) is
\* clamped to [0,100], and a NaN ("1.2.3") becomes "0".
PercentInput(raw) ==
    IF raw.k \in {"plain", "commas"} THEN Str(Min(100, Max(0, raw.v))) ELSE Str(0)

\* the digit-only inputs of the Working Capital tool (lines 533, 545, ...)
\* (typed text here is empty, digits, or digits with commas)
DigitsInput(raw) == IF raw.k \in {"plain", "commas"} THEN Plain(raw.v) ELSE Empty

\* ------------------------------------------------------- top bar (1080-86)
setMonth(s, next) == [s EXCEPT !.month = next]

setActiveTool(s, next) == [s EXCEPT !.activeTool = next]

SetMonth(m) ==
    UserOp("setMonth", setMonth(state, m), NoPre, m) /\ UNCHANGED idSeq

\* line 402
NextMonth ==
    /\ UserOp("nextMonth", setMonth(state, monthAdd(state.month, 1)), NoPre, 1)
    /\ UNCHANGED idSeq

SetActiveTool(t) ==
    UserOp("setActiveTool", setActiveTool(state, t), NoPre, t) /\ UNCHANGED idSeq

\* ------------------------------------------- completion flags (1088-1126)
\* the rows handed to markAllDone (lines 1162-1165, 1179-1184)
StepKeys(tool) ==
    IF tool = "workingCapital" THEN << "wc_reserve", "wc_familyOffice" >>
    ELSE IF tool = "cashflow" THEN << "cf_giving", "cf_lifestyle", "cf_needs", "cf_wealth" >>
    ELSE << >>

\* getDone(tool)[key], as the checkbox shows it (lines 1089, 227)
isDone(s, month, tool, key) ==
    /\ <<month, tool, key>> \in DOMAIN s.transferDone
    /\ s.transferDone[<<month, tool, key>>]

toggleDoneOnlyThis(s, month, tool, key, val) ==
    [s EXCEPT !.transferDone =
        [x \in {y \in DOMAIN @ : y[1] # month} \cup {<<month, tool, key>>} |->
            IF x = <<month, tool, key>> THEN val ELSE @[x]]]

\* toggleDone (lines 1092-1107)
toggleDone(s, month, tool, key, val) ==
    [s EXCEPT !.transferDone =
        [x \in (DOMAIN @) \cup {<<month, tool, key>>} |->
            IF x = <<month, tool, key>> THEN val ELSE @[x]]]

markAllDoneFirstRow(s, month, tool, rows) ==
    IF rows = << >> THEN s ELSE toggleDone(s, month, tool, rows[1], TRUE)

\* markAllDone (lines 1109-1126): rows.forEach sets each key to true
RECURSIVE markAllDone(_, _, _, _)
markAllDone(s, month, tool, rows) ==
    IF rows = << >> THEN s
    ELSE markAllDone(toggleDone(s, month, tool, Head(rows), TRUE), month, tool, Tail(rows))

ToolShown == session # NoSession /\ state.activeTool \in {"workingCapital", "cashflow"}

KeysOf(tool) == {StepKeys(tool)[i] : i \in 1..Len(StepKeys(tool))}

\* a checkbox of the open tool's transfer table (lines 227, 1160, 1177):
\* the box hands over the negation of what it shows
ToggleDone(key) ==
    /\ ToolShown
    /\ key \in KeysOf(state.activeTool)
    /\ LET val == ~isDone(state, state.month, state.activeTool, key)
       IN  UserOp("toggleDone",
                  toggleDone(state, state.month, state.activeTool, key, val), state,
                  [month |-> state.month, tool |-> state.activeTool, key |-> key,
                   val |-> val])
    /\ UNCHANGED idSeq

\* "Mark all done" of the open tool's transfer table (lines 195, 1161, 1178)
MarkAllDone ==
    /\ ToolShown
    /\ UserOp("markAllDone",
              markAllDone(state, state.month, state.activeTool, StepKeys(state.activeTool)),
              state, [month |-> state.month, tool |-> state.activeTool])
    /\ UNCHANGED idSeq

\* ------------------------------------------------- Cash Flow tool: inputs
CashflowOpen == session # NoSession /\ state.activeTool = "cashflow"

\* setCf (line 1174)
setCf(s, cf) == [s EXCEPT !.cashflow = cf]

CfOp(op, cf, pre, arg) ==
    /\ CashflowOpen
    /\ UserOp(op, setCf(state, cf), pre, arg)

\* line 794
SetBusinessIn(v) ==
    /\ CfOp("setBusinessIn", [state.cashflow EXCEPT !.businessIn = MoneyInput(v)], NoPre, v)
    /\ UNCHANGED idSeq

\* line 800
SetW2In(v) ==
    /\ CfOp("setW2In", [state.cashflow EXCEPT !.w2In = MoneyInput(v)], NoPre, v)
    /\ UNCHANGED idSeq

\* line 819: the Toggle hands over the negation of what it shows
SetGivingIsDollar ==
    /\ CfOp("setGivingIsDollar",
            [state.cashflow EXCEPT !.givingIsDollar = ~state.cashflow.givingIsDollar],
            NoPre, ~state.cashflow.givingIsDollar)
    /\ UNCHANGED idSeq

\* line 826: the percent field is shown in percent mode only
SetGivingPercent(raw) ==
    /\ ~state.cashflow.givingIsDollar
    /\ CfOp("setGivingPercent",
            [state.cashflow EXCEPT !.givingPercent = PercentInput(raw)], NoPre, raw)
    /\ UNCHANGED idSeq

\* line 828: the dollar field is shown in dollar mode only
SetGivingDollar(v) ==
    /\ state.cashflow.givingIsDollar
    /\ CfOp("setGivingDollar",
            [state.cashflow EXCEPT !.givingDollar = MoneyInput(v)], NoPre, v)
    /\ UNCHANGED idSeq

\* line 842
SetLifestyleMonthly(v) ==
    /\ CfOp("setLifestyleMonthly",
            [state.cashflow EXCEPT !.lifestyleMonthly = MoneyInput(v)], NoPre, v)
    /\ UNCHANGED idSeq

\* -------------------------------------------------- Cash Flow tool: needs
\* addNeed (lines 732-737); makeId (lines 20-25) never repeats an id
addNeed(cf, month, id) ==
    [cf EXCEPT !.needs = Append(cf.needs,
        Need(id, "", Plain(0), monthAdd(month, 1), Plain(0), "open"))]

AddNeed ==
    /\ Len(state.cashflow.needs) < MaxNeeds
    /\ CfOp("addNeed", addNeed(state.cashflow, state.month, idSeq + 1), NoPre, idSeq + 1)
    /\ idSeq' = idSeq + 1

\* { ...n, ...patch }
Patched(n, patch) ==
    [f \in DOMAIN n |-> IF f \in DOMAIN patch THEN patch[f] ELSE n[f]]

\* updateNeed (lines 739-741)
updateNeed(cf, id, patch) ==
    [cf EXCEPT !.needs =
        [i \in 1..Len(cf.needs) |->
            IF cf.needs[i].id = id THEN Patched(cf.needs[i], patch) ELSE cf.needs[i]]]

\* removeNeed (lines 743-745)
removeNeed(cf, id) ==
    [cf EXCEPT !.needs = SelectSeq(cf.needs, LAMBDA n : n.id # id)]

\* The rows of the table are the open needs (line 877); each row edits its
\* own need (lines 885, 896, 905, 908).
RowIds ==
    {state.cashflow.needs[i].id :
        i \in {j \in 1..Len(state.cashflow.needs) : state.cashflow.needs[j].status = "open"}}

UpdateNeed(id, patch) ==
    /\ id \in RowIds
    /\ CfOp("updateNeed", updateNeed(state.cashflow, id, patch), NoPre, id)
    /\ UNCHANGED idSeq

RemoveNeed(id) ==
    /\ id \in RowIds
    /\ CfOp("removeNeed", removeNeed(state.cashflow, id), NoPre, id)
    /\ UNCHANGED idSeq

\* Mark paid and reopen are not in src/src/App.jsx: they are the spec's
\* section 4.4 operations, built on updateNeed.
paidPatch(month) == [status |-> "paid", paidMonth |-> month]

reopenPatch == [status |-> "open", paidMonth |-> Unset]

MarkPaid(id) ==
    /\ \E i \in 1..Len(state.cashflow.needs) :
          state.cashflow.needs[i].id = id /\ state.cashflow.needs[i].status = "open"
    /\ CfOp("markPaid", updateNeed(state.cashflow, id, paidPatch(state.month)), state, id)
    /\ UNCHANGED idSeq

Reopen(id) ==
    /\ \E i \in 1..Len(state.cashflow.needs) :
          state.cashflow.needs[i].id = id /\ state.cashflow.needs[i].status = "paid"
    /\ CfOp("reopen", updateNeed(state.cashflow, id, reopenPatch), state, id)
    /\ UNCHANGED idSeq

\* ------------------------------------------------ the funding action (747-764)
\* the comparator handed to sort (line 748)
compareNeeds(a, b) == monthDiff(a.dueMonth, b.dueMonth)

\* Array.prototype.sort is stable and puts a after b when the comparator
\* is positive: insertion from the left gives that order.
RECURSIVE InsertBy(_, _)
InsertBy(n, s) ==
    IF s = <<>> THEN <<n>>
    ELSE IF compareNeeds(Head(s), n) > 0 THEN <<n>> \o s
    ELSE <<Head(s)>> \o InsertBy(n, Tail(s))

RECURSIVE sortNeeds(_)
sortNeeds(s) ==
    IF s = <<>> THEN <<>>
    ELSE InsertBy(s[Len(s)], sortNeeds(SubSeq(s, 1, Len(s) - 1)))

RECURSIVE allocWalkNoDeduct(_, _, _)
allocWalkNoDeduct(month, sorted, remainingPool) ==
    IF sorted = <<>> THEN <<>>
    ELSE LET n == Head(sorted)
             add == Min(remainingOf(n), remainingPool)
         IN  IF ~inWindow(month, n) \/ remainingPool <= 0
             THEN <<n>> \o allocWalkNoDeduct(month, Tail(sorted), remainingPool)
             ELSE <<[n EXCEPT !.funded = Str(toNumber(n.funded) + add)]>>
                  \o allocWalkNoDeduct(month, Tail(sorted), remainingPool)

\* the map over the sorted needs (lines 749-760)
RECURSIVE allocWalk(_, _, _)
allocWalk(month, sorted, remainingPool) ==
    IF sorted = <<>> THEN <<>>
    ELSE LET n == Head(sorted)
             add == Min(remainingOf(n), remainingPool)
         IN  IF ~inWindow(month, n) \/ remainingPool <= 0
             THEN <<n>> \o allocWalk(month, Tail(sorted), remainingPool)
             ELSE <<[n EXCEPT !.funded = Str(toNumber(n.funded) + add)]>>
                  \o allocWalk(month, Tail(sorted), remainingPool - add)

\* byId.get(id) ?? n (lines 762-763): a Map keeps the last entry of a key
byIdGet(next, n) ==
    LET hits == {i \in 1..Len(next) : next[i].id = n.id}
    IN  IF hits = {} THEN n
        ELSE next[CHOOSE i \in hits : \A j \in hits : j <= i]

runMonthlyAllocationSorted(month, cf) ==
    [cf EXCEPT !.needs = allocWalk(month, sortNeeds(cf.needs), allocateToNeeds(month, cf))]

\* runMonthlyAllocation (lines 747-764)
runMonthlyAllocation(month, cf) ==
    LET sorted == sortNeeds(cf.needs)
        next == allocWalk(month, sorted, allocateToNeeds(month, cf))
    IN  [cf EXCEPT !.needs = [i \in 1..Len(cf.needs) |-> byIdGet(next, cf.needs[i])]]

RunMonthlyAllocation ==
    /\ CfOp("fund", runMonthlyAllocation(state.month, state.cashflow), state,
            allocateToNeeds(state.month, state.cashflow))
    /\ UNCHANGED idSeq

\* ------------------------------------------------- Working Capital tool
WorkingCapitalOpen == session # NoSession /\ state.activeTool = "workingCapital"

\* setWc (line 1157)
setWc(s, wc) == [s EXCEPT !.workingCapital = wc]

WcOp(op, wc, arg) ==
    /\ WorkingCapitalOpen
    /\ UserOp(op, setWc(state, wc), NoPre, arg)

\* line 518
SetOperatingExpenses(v) ==
    /\ WcOp("setOperatingExpenses",
         [state.workingCapital EXCEPT !.operatingExpenses = MoneyInput(v)], v)
    /\ UNCHANGED idSeq

\* line 524
SetInventoryCost(v) ==
    /\ WcOp("setInventoryCost",
         [state.workingCapital EXCEPT !.inventoryCost = MoneyInput(v)], v)
    /\ UNCHANGED idSeq

\* line 532
SetDaysPerMonth(v) ==
    /\ WcOp("setDaysPerMonth",
         [state.workingCapital EXCEPT !.daysPerMonth = DigitsInput(v)], v)
    /\ UNCHANGED idSeq

\* line 544
SetAvgCollectionDays(v) ==
    /\ WcOp("setAvgCollectionDays",
         [state.workingCapital EXCEPT !.avgCollectionDays = DigitsInput(v)], v)
    /\ UNCHANGED idSeq

\* line 567
SetBufferDays(v) ==
    /\ WcOp("setBufferDays",
         [state.workingCapital EXCEPT !.bufferDays = DigitsInput(v)], v)
    /\ UNCHANGED idSeq

\* line 579
SetReserveDays(v) ==
    /\ WcOp("setReserveDays",
         [state.workingCapital EXCEPT !.reserveDays = DigitsInput(v)], v)
    /\ UNCHANGED idSeq

\* line 612
SetBusinessChecking(v) ==
    /\ WcOp("setBusinessChecking",
         [state.workingCapital EXCEPT !.businessChecking = MoneyInput(v)], v)
    /\ UNCHANGED idSeq

\* line 618
SetReserveAccountBalance(v) ==
    /\ WcOp("setReserveAccountBalance",
         [state.workingCapital EXCEPT !.reserveAccountBalance = MoneyInput(v)], v)
    /\ UNCHANGED idSeq

\* ------------------------------------------------ session (996-1019, 1066-71)
NoDoc == [has |-> FALSE, doc |-> <<>>]
Doc(d) == [has |-> TRUE, doc |-> d]

RemoveAt(q, i) == SubSeq(q, 1, i - 1) \o SubSeq(q, i + 1, Len(q))

\* The load effect (lines 1022-1049) on a new session: the status and the
\* select request.
loadEffect(u) == Append(loads, [user |-> u, phase |-> "sent", result |-> NoDoc])

\* setSession(u) with a session (lines 1006, 1009): the sign-in screen gives
\* way to the app, the load effect sends its request and sets "Loading",
\* then the save effect sets "Saving" and arms its timer.
Login(u) ==
    /\ session = NoSession
    /\ ~signingOut
    /\ steps > 0
    /\ Len(loads) < MaxLoads
    /\ session' = u
    /\ loads' = loadEffect(u)
    /\ Commit(state, u)
    /\ saveStatus' = "Saving"
    /\ dirty' = {}
    /\ steps' = steps - 1
    /\ last' = Did("login", NoPre, u)
    /\ UNCHANGED <<signingOut, writes, store, idSeq>>

\* the listener of line 1008 called with no session: setSession(null) and
\* nothing else; the save effect's cleanup clears the timer (line 1063)
SessionEnded ==
    /\ session # NoSession
    /\ session' = NoSession
    /\ timer' = saveEffect(state, NoSession)
    /\ last' = Did("sessionEnded", NoPre, session)
    /\ UNCHANGED <<state, signingOut, saveStatus, loads, writes, store, idSeq, dirty, steps>>

\* signOut (lines 1066-1071) up to its await
SignOutStart ==
    /\ session # NoSession
    /\ ~signingOut
    /\ steps > 0
    /\ signingOut' = TRUE
    /\ steps' = steps - 1
    /\ last' = Did("signOutStart", NoPre, session)
    /\ UNCHANGED <<state, session, saveStatus, timer, loads, writes, store, idSeq, dirty>>

signOutState == defaultState

\* signOut after the await: setSession(null); setState(defaultState())
SignOutFinish ==
    /\ signingOut
    /\ signingOut' = FALSE
    /\ session' = NoSession
    /\ Commit(signOutState, NoSession)
    /\ last' = Did("signOut", NoPre, session)
    /\ UNCHANGED <<saveStatus, loads, writes, store, idSeq, dirty, steps>>

\* ------------------------------------------------------ load (1022-1049)
\* the document store answers the select: the row, no row, or an error
LoadRead(i, fails) ==
    /\ i \in 1..Len(loads)
    /\ loads[i].phase = "sent"
    /\ loads' = [loads EXCEPT ![i] =
                    [user |-> loads[i].user,
                     phase |-> IF fails THEN "error" ELSE "read",
                     result |-> IF fails THEN NoDoc ELSE store[loads[i].user]]]
    /\ last' = Did("loadRead", NoPre, loads[i].user)
    /\ UNCHANGED <<state, session, signingOut, saveStatus, timer, writes, store,
                   idSeq, dirty, steps>>

mergeStateKnownOnly(prev, doc) ==
    [f \in DOMAIN prev |-> IF f \in DOMAIN doc THEN doc[f] ELSE prev[f]]

mergeStatePrevWins(prev, doc) ==
    [f \in (DOMAIN prev) \cup (DOMAIN doc) |->
        IF f \in DOMAIN prev THEN prev[f] ELSE doc[f]]

\* { ...prev, ...data.state } (line 1042)
mergeState(prev, doc) ==
    [f \in (DOMAIN prev) \cup (DOMAIN doc) |->
        IF f \in DOMAIN doc THEN doc[f] ELSE prev[f]]

loadErrorWrites(u) == Append(writes, [user |-> u, doc |-> defaultState, src |-> "load"])

\* the upserts the error branch issues (lines 1035-1038): none
loadErrorIssues(u) == writes

\* the upsert of the no-row branch (line 1045)
loadNewIssues(u) ==
    Append(writes, [user |-> u, doc |-> defaultState, src |-> "load"])

\* lines 1035-1038
LoadError(i) ==
    /\ i \in 1..Len(loads)
    /\ loads[i].phase = "error"
    /\ Len(loadErrorIssues(loads[i].user)) <= MaxWrites
    /\ loads' = RemoveAt(loads, i)
    /\ saveStatus' = "Loaded (new)"
    /\ writes' = loadErrorIssues(loads[i].user)
    /\ last' = Did("loadError", state, [user |-> loads[i].user, writes |-> writes])
    /\ UNCHANGED <<state, session, signingOut, timer, store, idSeq, dirty, steps>>

\* lines 1040-1043: the merge, then "Loaded"; the render that follows runs
\* the save effect, which with a session sets "Saving"
LoadMerge(i) ==
    /\ i \in 1..Len(loads)
    /\ loads[i].phase = "read"
    /\ loads[i].result.has
    /\ loads' = RemoveAt(loads, i)
    /\ Commit(mergeState(state, loads[i].result.doc), session)
    /\ saveStatus' = IF session # NoSession THEN "Saving" ELSE "Loaded"
    /\ last' = Did("loadMerge", state,
                   [user |-> loads[i].user, dirty |-> dirty, doc |-> loads[i].result.doc])
    /\ UNCHANGED <<session, signingOut, writes, store, idSeq, dirty, steps>>

\* lines 1044-1047: the upsert of defaultState(); "Loaded (new)" follows
\* the answer (WriteDone)
LoadNew(i) ==
    /\ i \in 1..Len(loads)
    /\ loads[i].phase = "read"
    /\ ~loads[i].result.has
    /\ Len(writes) < MaxWrites
    /\ loads' = RemoveAt(loads, i)
    /\ writes' = loadNewIssues(loads[i].user)
    /\ last' = Did("loadNew", state, [user |-> loads[i].user, writes |-> writes])
    /\ UNCHANGED <<state, session, signingOut, saveStatus, timer, store, idSeq, dirty, steps>>

\* ------------------------------------------------------ save (1052-1064)
\* the timer's callback up to its await (lines 1057-1059)
TimerFire ==
    /\ timer.user # NoSession
    /\ Len(writes) < MaxWrites
    /\ writes' = Append(writes, [user |-> timer.user, doc |-> timer.doc,
                                 src |-> "save"])
    /\ timer' = NoTimer
    /\ last' = Did("timerFire", NoPre, timer.user)
    /\ UNCHANGED <<state, session, signingOut, saveStatus, loads, store, idSeq, dirty, steps>>

saveAnswerAlwaysSaved(fails) == "Saved"

\* setSaveStatus(error ? "Save failed" : "Saved") (line 1060)
saveAnswer(fails) == IF fails THEN "Save failed" ELSE "Saved"

\* An upsert completes (line 1059, line 1045): the store takes the document
\* or fails it, and the answer sets the status (line 1060 for the save,
\* line 1046 for the load).  Upserts in flight complete in any order.
WriteDone(i, fails) ==
    /\ i \in 1..Len(writes)
    /\ writes' = RemoveAt(writes, i)
    /\ store' = IF fails THEN store
                ELSE [store EXCEPT ![writes[i].user] = Doc(writes[i].doc)]
    /\ saveStatus' = IF writes[i].src = "load" THEN "Loaded (new)"
                     ELSE saveAnswer(fails)
    /\ last' = Did("writeDone", NoPre,
                   [user |-> writes[i].user, src |-> writes[i].src, fails |-> fails,
                    doc |-> writes[i].doc])
    /\ UNCHANGED <<state, session, signingOut, timer, loads, idSeq, dirty, steps>>

\* ------------------------------------------------------- specifications
\* App as constructed (lines 991-994), with an empty table
Init ==
    /\ state = defaultState
    /\ session = NoSession
    /\ signingOut = FALSE
    /\ saveStatus = "Saved"
    /\ timer = NoTimer
    /\ loads = <<>>
    /\ writes = <<>>
    /\ store = [u \in Users |-> NoDoc]
    /\ idSeq = 2
    /\ dirty = {}
    /\ last = Did("init", NoPre, 0)
    /\ steps = MaxSteps

\* what the user types and picks
AppMonths == {Month(2026, 5)}

Persistence ==
    \/ \E i \in 1..MaxLoads, fails \in BOOLEAN : LoadRead(i, fails)
    \/ \E i \in 1..MaxLoads : LoadError(i)
    \/ \E i \in 1..MaxLoads : LoadMerge(i)
    \/ \E i \in 1..MaxLoads : LoadNew(i)
    \/ TimerFire
    \/ \E i \in 1..MaxWrites, fails \in BOOLEAN : WriteDone(i, fails)

Next ==
    \/ \E u \in Users : Login(u)
    \/ SessionEnded
    \/ SignOutStart
    \/ SignOutFinish
    \/ Persistence
    \/ \E m \in AppMonths : SetMonth(m)
    \/ \E t \in Tools : SetActiveTool(t)

Spec == Init /\ [][Next]_vars

\* The Cash Flow tool, open in the session of a first-time user: signed in,
\* the load found no row and wrote the defaults, Cash Flow was picked.
InitCF ==
    /\ state = prefill(setActiveTool(defaultState, "cashflow"))
    /\ session = "A"
    /\ signingOut = FALSE
    /\ saveStatus = "Saving"
    /\ timer = saveEffect(state, "A")
    /\ loads = <<>>
    /\ writes = <<>>
    /\ store = [u \in Users |-> IF u = "A" THEN Doc(defaultState) ELSE NoDoc]
    /\ idSeq = 2
    /\ dirty = {"activeTool", "cashflow"}
    /\ last = Did("setActiveTool", NoPre, "cashflow")
    /\ steps = MaxCfSteps

W2Texts == {Plain(USD(4000)), Commas(USD(5000))}
BusinessTexts == {Plain(USD(1000))}
GivingDollarTexts == {Plain(USD(8000))}
PercentTexts == {Plain(10), Plain(150), Junk}
LifestyleTexts == {Plain(USD(1000)), Plain(USD(6000))}
NeedPatches ==
    {[dueMonth |-> Month(2026, 12)],
     [target |-> MoneyInput(Plain(USD(3000)))],
     [target |-> MoneyInput(Plain(USD(5000)))],
     [funded |-> MoneyInput(Commas(USD(9000)))]}
CfMonths == {Month(2026, 5)}
IdsInUse == 1..(2 + MaxCfSteps + 1)

NextCF ==
    \/ \E v \in BusinessTexts : SetBusinessIn(v)
    \/ \E v \in W2Texts : SetW2In(v)
    \/ SetGivingIsDollar
    \/ \E v \in PercentTexts : SetGivingPercent(v)
    \/ \E v \in GivingDollarTexts : SetGivingDollar(v)
    \/ \E v \in LifestyleTexts : SetLifestyleMonthly(v)
    \/ AddNeed
    \/ \E id \in IdsInUse, patch \in NeedPatches : UpdateNeed(id, patch)
    \/ \E id \in IdsInUse : RemoveNeed(id)
    \/ \E id \in IdsInUse : MarkPaid(id)
    \/ \E id \in IdsInUse : Reopen(id)
    \/ RunMonthlyAllocation
    \/ \E m \in CfMonths : SetMonth(m)
    \/ NextMonth

SpecCF == InitCF /\ [][NextCF]_vars

\* The Working Capital tool, open in that session, with any inputs typed in.
OperatingTexts == {Empty, Plain(USD(55000)), Plain(USD(30000))}
InventoryTexts == {Empty, Commas(USD(6000))}
DaysPerMonthTexts == {Empty, Plain(30), Plain(0)}
BufferDaysTexts == {Empty, Plain(45)}
ReserveDaysTexts == {Empty, Plain(45), Plain(90)}
CheckingTexts == {Empty, Plain(USD(125000)), Plain(USD(50000))}
ReserveTexts == {Empty, Plain(USD(75000)), Commas(USD(200000))}
CollectionTexts == {Plain(1)}

InitWC ==
    /\ \E op \in OperatingTexts, inv \in InventoryTexts, dpm \in DaysPerMonthTexts,
          buf \in BufferDaysTexts, res \in ReserveDaysTexts, chk \in CheckingTexts,
          bal \in ReserveTexts :
          state = suggest(setWc(setActiveTool(defaultState, "workingCapital"),
                    [operatingExpenses |-> op, inventoryCost |-> inv,
                     daysPerMonth |-> dpm, avgCollectionDays |-> Empty,
                     businessChecking |-> chk, reserveAccountBalance |-> bal,
                     bufferDays |-> buf, reserveDays |-> res]))
    /\ session = "A"
    /\ signingOut = FALSE
    /\ saveStatus = "Saving"
    /\ timer = saveEffect(state, "A")
    /\ loads = <<>>
    /\ writes = <<>>
    /\ store = [u \in Users |-> IF u = "A" THEN Doc(defaultState) ELSE NoDoc]
    /\ idSeq = 2
    /\ dirty = {"activeTool", "workingCapital", "suggestedBusinessIn"}
    /\ last = Did("setActiveTool", NoPre, "workingCapital")
    /\ steps = MaxWcSteps

NextWC ==
    \/ \E v \in OperatingTexts : SetOperatingExpenses(v)
    \/ \E v \in InventoryTexts : SetInventoryCost(v)
    \/ \E v \in DaysPerMonthTexts : SetDaysPerMonth(v)
    \/ \E v \in CollectionTexts : SetAvgCollectionDays(v)
    \/ \E v \in BufferDaysTexts : SetBufferDays(v)
    \/ \E v \in ReserveDaysTexts : SetReserveDays(v)
    \/ \E v \in CheckingTexts : SetBusinessChecking(v)
    \/ \E v \in ReserveTexts : SetReserveAccountBalance(v)

SpecWC == InitWC /\ [][NextWC]_vars

\* A session at rest on the home screen: signed in, the load found no row
\* and wrote the defaults, and the save of the first render has landed.
InitSave ==
    /\ state = defaultState
    /\ session = "A"
    /\ signingOut = FALSE
    /\ saveStatus = "Saved"
    /\ timer = NoTimer
    /\ loads = <<>>
    /\ writes = <<>>
    /\ store = [u \in Users |-> IF u = "A" THEN Doc(defaultState) ELSE NoDoc]
    /\ idSeq = 2
    /\ dirty = {}
    /\ last = Did("writeDone", NoPre,
                  [user |-> "A", src |-> "save", fails |-> FALSE, doc |-> defaultState])
    /\ steps = MaxSaveSteps

NextSave ==
    \/ \E m \in AppMonths : SetMonth(m)
    \/ NextMonth
    \/ \E t \in Tools : SetActiveTool(t)
    \/ TimerFire
    \/ \E i \in 1..MaxWrites, fails \in BOOLEAN : WriteDone(i, fails)

SpecSave == InitSave /\ [][NextSave]_vars

\* Documents found in the table at sign-in: two that earlier sessions of
\* this program saved, one saved before transferDone was part of the state,
\* and one carrying a field this program does not know.
ExampleWc ==
    [operatingExpenses |-> Plain(USD(55000)), inventoryCost |-> Empty,
     daysPerMonth |-> Plain(30), avgCollectionDays |-> Empty,
     businessChecking |-> Plain(USD(125000)),
     reserveAccountBalance |-> Commas(USD(75000)),
     bufferDays |-> Plain(7), reserveDays |-> Plain(45)]

SavedWc ==
    toggleDone(suggest(setWc(setActiveTool(defaultState, "workingCapital"), ExampleWc)),
               Month(2026, 2), "workingCapital", "wc_reserve", TRUE)

SavedCf ==
    LET a == prefill(setActiveTool(setMonth(SavedWc, Month(2026, 5)), "cashflow"))
        b == prefill(setCf(a, [a.cashflow EXCEPT !.w2In = Commas(USD(5000))]))
        c == prefill(setCf(b, runMonthlyAllocation(b.month, b.cashflow)))
    IN  toggleDone(c, c.month, "cashflow", "cf_giving", FALSE)

OldSchemaDoc == [f \in (DOMAIN SavedCf) \ {"transferDone"} |-> SavedCf[f]]

UnknownFieldDoc ==
    [f \in (DOMAIN SavedWc) \cup {"notes"} |-> IF f = "notes" THEN "kept" ELSE SavedWc[f]]

StoredDocs == {SavedWc, SavedCf, OldSchemaDoc, UnknownFieldDoc}

\* App as constructed, with a document of user A in the table
InitLoad ==
    /\ state = defaultState
    /\ session = NoSession
    /\ signingOut = FALSE
    /\ saveStatus = "Saved"
    /\ timer = NoTimer
    /\ loads = <<>>
    /\ writes = <<>>
    /\ \E d \in StoredDocs :
          store = [u \in Users |-> IF u = "A" THEN Doc(d) ELSE NoDoc]
    /\ idSeq = 2
    /\ dirty = {}
    /\ last = Did("init", NoPre, 0)
    /\ steps = MaxSteps

NextLoad ==
    \/ \E u \in Users : Login(u)
    \/ SessionEnded
    \/ SignOutStart
    \/ SignOutFinish
    \/ Persistence
    \/ \E m \in AppMonths : SetMonth(m)

SpecLoad == InitLoad /\ [][NextLoad]_vars

\* Working Capital filled in and open, then any tool: what one tool hands
\* to the other.
HoDaysTexts == {Plain(30), Plain(0)}
HoBufferTexts == {Plain(7), Plain(45)}
HoCheckingTexts == {Plain(USD(125000)), Plain(USD(50000))}
HoReserveTexts == {Plain(USD(75000)), Commas(USD(200000))}

InitHO ==
    /\ \E dpm \in HoDaysTexts, buf \in HoBufferTexts, chk \in HoCheckingTexts,
          bal \in HoReserveTexts :
          state = suggest(setWc(setActiveTool(defaultState, "workingCapital"),
                    [operatingExpenses |-> Plain(USD(55000)), inventoryCost |-> Empty,
                     daysPerMonth |-> dpm, avgCollectionDays |-> Empty,
                     businessChecking |-> chk, reserveAccountBalance |-> bal,
                     bufferDays |-> buf, reserveDays |-> Plain(45)]))
    /\ session = "A"
    /\ signingOut = FALSE
    /\ saveStatus = "Saving"
    /\ timer = saveEffect(state, "A")
    /\ loads = <<>>
    /\ writes = <<>>
    /\ store = [u \in Users |-> IF u = "A" THEN Doc(defaultState) ELSE NoDoc]
    /\ idSeq = 2
    /\ dirty = {"activeTool", "workingCapital", "suggestedBusinessIn"}
    /\ last = Did("setActiveTool", NoPre, "workingCapital")
    /\ steps = MaxHoSteps

NextHO ==
    \/ \E t \in Tools : SetActiveTool(t)
    \/ \E v \in HoBufferTexts : SetBufferDays(v)
    \/ \E v \in HoCheckingTexts : SetBusinessChecking(v)
    \/ \E v \in HoReserveTexts : SetReserveAccountBalance(v)
    \/ \E v \in BusinessTexts : SetBusinessIn(v)
    \/ \E v \in W2Texts : SetW2In(v)
    \/ SetGivingIsDollar
    \/ \E v \in PercentTexts : SetGivingPercent(v)
    \/ \E v \in GivingDollarTexts : SetGivingDollar(v)
    \/ \E v \in LifestyleTexts : SetLifestyleMonthly(v)
    \/ AddNeed
    \/ \E id \in IdsInUse, patch \in NeedPatches : UpdateNeed(id, patch)
    \/ \E id \in IdsInUse : RemoveNeed(id)
    \/ RunMonthlyAllocation
    \/ \E key \in KeysOf("workingCapital") \cup KeysOf("cashflow") : ToggleDone(key)
    \/ MarkAllDone
    \/ NextMonth

SpecHO == InitHO /\ [][NextHO]_vars

\* The calendar helpers called on their own, as TestHarness does (lines
\* 965-968), with the months the program holds: those of monthOptions and
\* of the years around it.
StartYear == 2026
MonthTokens == {Month(y, m) : y \in (StartYear - 1)..(StartYear + MaxYears), m \in 1..12}
Shifts == (0 - MaxShift)..MaxShift

MonthAddCall(a, n) ==
    /\ last.op = "init"
    /\ last' = Did("monthAdd", a, [n |-> n, out |-> monthAdd(a, n)])
    /\ UNCHANGED <<state, session, signingOut, saveStatus, timer, loads, writes, store,
                   idSeq, dirty, steps>>

MonthDiffCall(a, b) ==
    /\ last.op = "init"
    /\ last' = Did("monthDiff", a, [b |-> b, out |-> monthDiff(a, b)])
    /\ UNCHANGED <<state, session, signingOut, saveStatus, timer, loads, writes, store,
                   idSeq, dirty, steps>>

NextCal ==
    \/ \E a \in MonthTokens, n \in Shifts : MonthAddCall(a, n)
    \/ \E a \in MonthTokens, b \in MonthTokens : MonthDiffCall(a, b)

SpecCal == Init /\ [][NextCal]_vars

\* User A signed in and at rest with A's document loaded and saved; user B
\* has no document or one of B's own.
DocOfB == setMonth(defaultState, Month(2026, 9))

InitUsers ==
    /\ state = SavedCf
    /\ session = "A"
    /\ signingOut = FALSE
    /\ saveStatus = "Saved"
    /\ timer = NoTimer
    /\ loads = <<>>
    /\ writes = <<>>
    /\ \E b \in {NoDoc, Doc(DocOfB)} :
          store = [u \in Users |-> IF u = "A" THEN Doc(SavedCf) ELSE b]
    /\ idSeq = 2
    /\ dirty = {}
    /\ last = Did("writeDone", NoPre,
                  [user |-> "A", src |-> "save", fails |-> FALSE, doc |-> SavedCf])
    /\ steps = MaxSteps

SpecUsers == InitUsers /\ [][NextLoad]_vars

\* The save effect with a slow store: the timer's callback (lines 1056-1061)
\* does not wait for the upsert of an earlier callback, so a second upsert
\* is sent while the first is still in flight.
TimerFireInFlight ==
    /\ timer.user # NoSession
    /\ Len(writes) < MaxInFlight
    /\ writes' = Append(writes, [user |-> timer.user, doc |-> timer.doc,
                                 src |-> "save"])
    /\ timer' = NoTimer
    /\ last' = Did("timerFire", NoPre, timer.user)
    /\ UNCHANGED <<state, session, signingOut, saveStatus, loads, store, idSeq, dirty, steps>>

\* an upsert in flight is answered without an error
WriteSucceeds == \E i \in 1..MaxInFlight : WriteDone(i, FALSE)

\* A session at rest on the home screen, the user changing the month, and
\* a store that answers every upsert without an error, in any order.
NextConverge ==
    \/ \E m \in AppMonths : SetMonth(m)
    \/ NextMonth
    \/ TimerFireInFlight
    \/ WriteSucceeds

\* An armed timer fires 600 ms after the last change (setTimeout, line
\* 1056) and every upsert is answered (line 1059).
SpecConverge ==
    /\ InitSave
    /\ [][NextConverge]_vars
    /\ WF_vars(TimerFireInFlight)
    /\ WF_vars(WriteSucceeds)

\* ==================================================================
\* Properties
\* ==================================================================
Funded == last.op = "fund"
PreNeeds == last.pre.cashflow.needs
PostNeeds == state.cashflow.needs
PreMonth == last.pre.month
Increase(i) == toNumber(PostNeeds[i].funded) - toNumber(PreNeeds[i].funded)
Gap(n) == Max(0, toNumber(n.target) - toNumber(n.funded))

\* open and due this month through five months ahead
DueWithinSix(month, n) ==
    /\ n.status = "open"
    /\ 0 <= monthDiff(month, n.dueMonth)
    /\ monthDiff(month, n.dueMonth) <= 5

\* C1: the funding action funds in-window needs earliest-due-first: of two
\* in-window needs, the later-due one gains funding only if the action has
\* closed the earlier-due one's whole gap.
C1_EarliestDueFirst ==
    Funded =>
        \A a, b \in 1..Len(PreNeeds) :
            ( /\ DueWithinSix(PreMonth, PreNeeds[a])
              /\ DueWithinSix(PreMonth, PreNeeds[b])
              /\ monthDiff(PreNeeds[a].dueMonth, PreNeeds[b].dueMonth) > 0
              /\ Increase(b) > 0 )
            => Gap(PostNeeds[a]) = 0

\* C2: one funding action hands out exactly the pool: the increases of
\* fundedAmount add up to allocateToNeeds as it was before the action, no
\* need gets more than its gap, at most one funded need gets less than its
\* gap (the one that took the rest of the pool), and the pool is never
\* negative.
C2_PoolExhaustedExactly ==
    Funded =>
        LET pool == Max(0, Min(availableAfterRequired(last.pre.cashflow),
                               remainingTotal(PreMonth, last.pre.cashflow)))
        IN  /\ pool >= 0
            /\ last.arg = pool
            /\ Len(PostNeeds) = Len(PreNeeds)
            /\ SumSeq([i \in 1..Len(PreNeeds) |-> Increase(i)]) = pool
            /\ \A i \in 1..Len(PreNeeds) :
                  0 <= Increase(i) /\ Increase(i) <= Gap(PreNeeds[i])
            /\ Cardinality({i \in 1..Len(PreNeeds) :
                  0 < Increase(i) /\ Increase(i) < Gap(PreNeeds[i])}) <= 1

\* two needs were funded by one action, the second with what was left
C2_Witness ==
    /\ Funded
    /\ last.arg > 0
    /\ \E i, j \in 1..Len(PreNeeds) :
          /\ i # j
          /\ Increase(i) = Gap(PreNeeds[i]) /\ Increase(i) > 0
          /\ 0 < Increase(j) /\ Increase(j) < Gap(PreNeeds[j])

\* C3: a need that is not open, or is past due, or is due more than five
\* months ahead adds nothing to remainingTotal, and the funding action
\* leaves it as it was even with money in the pool.
C3_OutOfWindowUntouched ==
    /\ remainingTotal(state.month, state.cashflow) =
          SumSeq([i \in 1..Len(PostNeeds) |->
              IF DueWithinSix(state.month, PostNeeds[i]) THEN Gap(PostNeeds[i]) ELSE 0])
    /\ Funded =>
          \A i \in 1..Len(PreNeeds) :
              ~DueWithinSix(PreMonth, PreNeeds[i]) => PostNeeds[i] = PreNeeds[i]

\* the pool had money while an open need due more than five months ahead
\* had a gap
C3_Witness ==
    /\ Funded
    /\ last.arg > 0
    /\ \E i \in 1..Len(PreNeeds) :
          /\ PreNeeds[i].status = "open"
          /\ monthDiff(PreMonth, PreNeeds[i].dueMonth) > 5
          /\ Gap(PreNeeds[i]) > 0

\* C4: the giving transfer is never more than the inflow: the fixed amount
\* is capped at the inflow, the percentage is givingPercent/100 of it, and
\* the stored givingPercent is always within [0,100].
C4_GivingWithinInflow ==
    LET cf == state.cashflow
        total == toNumber(cf.businessIn) + toNumber(cf.w2In)
    IN  /\ 0 <= givingAmount(cf) /\ givingAmount(cf) <= total
        /\ cf.givingIsDollar => givingAmount(cf) = Min(toNumber(cf.givingDollar), total)
        /\ ~cf.givingIsDollar => 100 * givingAmount(cf) = toNumber(cf.givingPercent) * total
        /\ 0 <= toNumber(cf.givingPercent) /\ toNumber(cf.givingPercent) <= 100

\* 150 was typed into the percent field with money coming in
C4_Witness ==
    /\ last.op = "setGivingPercent"
    /\ last.arg = Plain(150)
    /\ ~state.cashflow.givingIsDollar
    /\ state.cashflow.givingPercent = Plain(100)
    /\ inflow(state.cashflow) > 0
    /\ givingAmount(state.cashflow) = inflow(state.cashflow)

\* the Working Capital figures, as numerators over wcDen
WcNow == state.workingCapital
BusinessDelta == businessBalance(WcNow) - wcGoal(WcNow)
ReserveShortfall == Max(0, reserveGoal(WcNow) - reserveBalance(WcNow))
WcEdited ==
    last.op \in {"setOperatingExpenses", "setInventoryCost", "setDaysPerMonth",
                 "setBufferDays", "setReserveDays", "setBusinessChecking",
                 "setReserveAccountBalance"}

\* C5: the waterfall fills the reserve before the family office:
\* moveToReserve = min(max(0, businessDelta), reserve shortfall),
\* moveToFamilyOffice is the rest of max(0, businessDelta), and it is
\* positive only when the whole shortfall is covered; goals 82500/82500
\* with balances 125000/75000 give 7500 and 35000.
C5_ReserveBeforeFamilyOffice ==
    /\ moveToReserve(WcNow) = Min(Max(0, BusinessDelta), ReserveShortfall)
    /\ moveToFamilyOffice(WcNow) = Max(0, BusinessDelta) - moveToReserve(WcNow)
    /\ moveToReserve(WcNow) + moveToFamilyOffice(WcNow) = Max(0, BusinessDelta)
    /\ moveToFamilyOffice(WcNow) > 0 => moveToReserve(WcNow) = ReserveShortfall
    /\ ( /\ wcGoal(WcNow) = USD(82500) * wcDen(WcNow)
         /\ reserveGoal(WcNow) = USD(82500) * wcDen(WcNow)
         /\ toNumber(WcNow.businessChecking) = USD(125000)
         /\ toNumber(WcNow.reserveAccountBalance) = USD(75000) )
       => /\ moveToReserve(WcNow) = USD(7500) * wcDen(WcNow)
          /\ moveToFamilyOffice(WcNow) = USD(35000) * wcDen(WcNow)

\* the spec's example, reached by typing the reserve balance last
C5_Witness ==
    /\ last.op = "setReserveAccountBalance"
    /\ toNumber(WcNow.operatingExpenses) = USD(55000)
    /\ toNumber(WcNow.inventoryCost) = 0
    /\ toNumber(WcNow.daysPerMonth) = 30
    /\ toNumber(WcNow.bufferDays) = 45
    /\ toNumber(WcNow.reserveDays) = 45
    /\ wcGoal(WcNow) = USD(82500) * 30
    /\ toNumber(WcNow.businessChecking) = USD(125000)
    /\ toNumber(WcNow.reserveAccountBalance) = USD(75000)
    /\ moveToReserve(WcNow) = USD(7500) * 30
    /\ moveToFamilyOffice(WcNow) = USD(35000) * 30

\* C6: with business checking below the working-capital goal nothing
\* moves: moveToReserve, moveToFamilyOffice and the suggested business
\* inflow are all 0, whatever the reserve shortfall.
C6_NothingMovesBelowBuffer ==
    BusinessDelta < 0 =>
        /\ moveToReserve(WcNow) = 0
        /\ moveToFamilyOffice(WcNow) = 0
        /\ state.suggestedBusinessIn = Rat(0, 1)

\* below the buffer with a reserve shortfall, after an edit
C6_Witness ==
    /\ WcEdited
    /\ BusinessDelta < 0
    /\ ReserveShortfall > 0
    /\ toNumber(WcNow.businessChecking) > 0

\* the need an operation was about, before and after it
NeedOf(needs, id) == needs[CHOOSE i \in 1..Len(needs) : needs[i].id = id]
IdsOf(needs) == {needs[i].id : i \in 1..Len(needs)}
FundedOfOpen(needs) ==
    SumSeq([i \in 1..Len(needs) |->
        IF needs[i].status = "open" THEN toNumber(needs[i].funded) ELSE 0])

\* C7: marking a need paid sets status paid and paidMonth to the viewed
\* month, keeps fundedAmount, and takes the need out of activeNeeds,
\* totalReservedOpen and the window; reopening sets status open, clears
\* paidMonth, keeps fundedAmount and puts the need back; paid then reopen
\* gives back the need as it was.
C7_PaidAndReopen ==
    /\ last.op = "markPaid" =>
          LET p == NeedOf(PreNeeds, last.arg)
              q == NeedOf(PostNeeds, last.arg)
          IN  /\ q = [p EXCEPT !.status = "paid", !.paidMonth = PreMonth]
              /\ q.funded = p.funded
              /\ last.arg \notin IdsOf(activeNeeds(state.cashflow))
              /\ last.arg \notin IdsOf(windowNeeds(state.month, state.cashflow))
              /\ totalReservedOpen(state.cashflow) =
                    FundedOfOpen(PreNeeds) - toNumber(p.funded)
              /\ \A i \in 1..Len(PreNeeds) :
                    PreNeeds[i].id # last.arg => PostNeeds[i] = PreNeeds[i]
    /\ last.op = "reopen" =>
          LET p == NeedOf(PreNeeds, last.arg)
              q == NeedOf(PostNeeds, last.arg)
          IN  /\ q = [p EXCEPT !.status = "open", !.paidMonth = Unset]
              /\ q.funded = p.funded
              /\ last.arg \in IdsOf(activeNeeds(state.cashflow))
              /\ (last.arg \in IdsOf(windowNeeds(state.month, state.cashflow)))
                    = DueWithinSix(state.month, q)
              /\ totalReservedOpen(state.cashflow) =
                    FundedOfOpen(PreNeeds) + toNumber(p.funded)
    /\ \A i \in 1..Len(PostNeeds) :
          (PostNeeds[i].status = "open" /\ PostNeeds[i].paidMonth = Unset) =>
              updateNeed(updateNeed(state.cashflow, PostNeeds[i].id, paidPatch(state.month)),
                         PostNeeds[i].id, reopenPatch) = state.cashflow

\* a need with money set aside was marked paid and then reopened
C7_Witness ==
    /\ last.op = "reopen"
    /\ toNumber(NeedOf(PostNeeds, last.arg).funded) > 0
    /\ NeedOf(PreNeeds, last.arg).paidMonth = state.month
    /\ last.arg \in IdsOf(windowNeeds(state.month, state.cashflow))

\* C8: a load result never replaces newer in-memory state: the fields the
\* user changed since signing in are as they were when the result of the
\* load arrives.
C8_LoadKeepsEdits ==
    last.op = "loadMerge" =>
        \A f \in last.arg.dirty : state[f] = last.pre[f]

\* C9: when the session ends, however it ends, no debounced write stays
\* pending and the in-memory state is defaultState() before the next
\* session starts.
C9_SessionEndResets ==
    (session = NoSession /\ ~signingOut) =>
        /\ timer = NoTimer
        /\ state = defaultState

Background ==
    {"timerFire", "writeDone", "loadRead", "loadError", "loadNew", "signOutStart"}

\* the upserts of the save effect that are in flight
SaveWrites(w) == SelectSeq(w, LAMBDA x : x.src = "save")

\* C11: a failed write of the save effect sets the status "Save failed"
\* and leaves the in-memory state as it was; it arms no timer and issues
\* no write: a write of the save effect is issued only by the timer, a
\* timer is armed only by a change of state or session, and the timer an
\* edit arms carries the whole current state for the signed-in user.
C11_SaveFailureNoRetry ==
    /\ []( (last.op = "writeDone" /\ last.arg.src = "save" /\ last.arg.fails)
            => saveStatus = "Save failed" )
    /\ []( timer # NoTimer => (timer.user = session /\ timer.doc = state) )
    /\ [][ /\ last'.op = "writeDone" =>
               /\ state' = state
               /\ timer' = timer
               /\ Len(writes') = Len(writes) - 1
           /\ SaveWrites(writes') # SaveWrites(writes) /\ Len(writes') >= Len(writes) =>
               /\ timer # NoTimer
               /\ timer' = NoTimer
               /\ writes' = Append(writes, [user |-> timer.user, doc |-> state,
                                            src |-> "save"])
           /\ (timer' # timer /\ timer' # NoTimer) => last'.op \notin Background
           /\ (last'.op \notin Background /\ session' # NoSession) =>
               timer' = [user |-> session', doc |-> state'] ]_vars

\* a write of the save effect failed, with nothing else pending
C11_Witness ==
    /\ last.op = "writeDone"
    /\ last.arg.src = "save"
    /\ last.arg.fails
    /\ saveStatus = "Save failed"
    /\ session = last.arg.user
    /\ state # defaultState
    /\ timer = NoTimer
    /\ writes = <<>>

\* C12: writes are debounced.  Every change of state or session replaces
\* the pending timer by one for the new state (or by none without a
\* session) and issues no write itself; the timer fires only when nothing
\* has changed since it was armed, issues one write that carries the
\* state of the last edit, and is then gone, so the edits made before it
\* fires end in at most one write.
C12_Debounced ==
    [][ /\ last'.op \notin Background =>
            /\ writes' = writes
            /\ timer' = IF session' = NoSession THEN NoTimer
                        ELSE [user |-> session', doc |-> state']
        /\ last'.op = "timerFire" =>
            /\ timer.user = session
            /\ timer.doc = state
            /\ state' = state
            /\ timer' = NoTimer
            /\ writes' = Append(writes, [user |-> session, doc |-> state, src |-> "save"])
        /\ timer = NoTimer => Len(SaveWrites(writes')) <= Len(SaveWrites(writes)) ]_vars

\* two edits were made one after the other and one write carries both
C12_Witness ==
    /\ last.op = "timerFire"
    /\ state.month = Month(2026, 5)
    /\ state.activeTool = "cashflow"
    /\ writes = << [user |-> session, doc |-> state, src |-> "save"] >>
    /\ store[session] = Doc(defaultState)
    /\ timer = NoTimer

\* what a load merged, and onto what
Loaded == last.op = "loadMerge"
LoadedDoc == last.arg.doc
DefaultFields == DOMAIN defaultState

Suggested == state.suggestedBusinessIn

PreFlags == last.pre.transferDone
Flags == state.transferDone
SameMoney ==
    /\ state.workingCapital = last.pre.workingCapital
    /\ state.cashflow = last.pre.cashflow
    /\ state.suggestedBusinessIn = last.pre.suggestedBusinessIn
    /\ state.month = last.pre.month
    /\ allocateToNeeds(state.month, state.cashflow) =
          allocateToNeeds(last.pre.month, last.pre.cashflow)
    /\ excess(state.month, state.cashflow) = excess(last.pre.month, last.pre.cashflow)
    /\ givingAmount(state.cashflow) = givingAmount(last.pre.cashflow)
    /\ moveToReserve(state.workingCapital) = moveToReserve(last.pre.workingCapital)
    /\ moveToFamilyOffice(state.workingCapital) = moveToFamilyOffice(last.pre.workingCapital)

\* C16: toggling the flag of (viewed month, tool, step) sets that one flag
\* to the negation of what was shown and changes nothing else: every other
\* flag, the working-capital inputs, the cash-flow inputs, the needs and
\* every computed amount are as before; and changing the viewed month
\* leaves every stored flag as it is.
C16_ToggleOnlyOneFlag ==
    /\ []( last.op = "toggleDone" =>
            LET k == <<last.arg.month, last.arg.tool, last.arg.key>>
            IN  /\ last.arg.month = last.pre.month
                /\ last.arg.tool = last.pre.activeTool
                /\ DOMAIN Flags = (DOMAIN PreFlags) \cup {k}
                /\ Flags[k] = last.arg.val
                /\ Flags[k] = ~(k \in DOMAIN PreFlags /\ PreFlags[k])
                /\ \A x \in (DOMAIN PreFlags) \ {k} : Flags[x] = PreFlags[x]
                /\ SameMoney )
    /\ [][ last'.op \in {"setMonth", "nextMonth"} =>
               state'.transferDone = state.transferDone ]_vars

\* a flag was set in one month, the month was changed, and a flag of the
\* new month was toggled
C16_Witness ==
    /\ last.op = "toggleDone"
    /\ last.arg.val
    /\ \E x \in DOMAIN PreFlags :
          /\ x[1] # last.arg.month
          /\ PreFlags[x]
          /\ Flags[x]
    /\ toNumber(state.workingCapital.businessChecking) > 0

\* the step keys of the two tools
WcKeys == {"wc_reserve", "wc_familyOffice"}
CfKeys == {"cf_giving", "cf_lifestyle", "cf_needs", "cf_wealth"}

\* C17: "Mark all done" for the open tool in the viewed month sets the
\* flags of all its step keys (2 for Working Capital, 4 for Cash Flow) to
\* true in one update of the state, and leaves the flags of the other tool
\* and of the other months, and the rest of the state, as they were.
C17_MarkAllDone ==
    last.op = "markAllDone" =>
        LET keys == IF last.arg.tool = "workingCapital" THEN WcKeys ELSE CfKeys
            set == {<<last.arg.month, last.arg.tool, key>> : key \in keys}
        IN  /\ last.arg.month = last.pre.month
            /\ last.arg.tool = last.pre.activeTool
            /\ last.arg.tool \in {"workingCapital", "cashflow"}
            /\ Cardinality(WcKeys) = 2 /\ Cardinality(CfKeys) = 4
            /\ DOMAIN Flags = (DOMAIN PreFlags) \cup set
            /\ \A x \in set : Flags[x] = TRUE
            /\ \A x \in (DOMAIN PreFlags) \ set : Flags[x] = PreFlags[x]
            /\ SameMoney
            /\ state.activeTool = last.pre.activeTool

\* all four Cash Flow steps were marked done while a Working Capital flag
\* of the same month was set
C17_Witness ==
    /\ last.op = "markAllDone"
    /\ last.arg.tool = "cashflow"
    /\ \E x \in DOMAIN PreFlags : x[2] = "workingCapital" /\ x[1] = last.arg.month
    /\ \A key \in CfKeys : isDone(state, state.month, "cashflow", key)
    /\ Cardinality(DOMAIN Flags) = 5

\* C18: the funding action neither adds, removes nor reorders needs and
\* changes nothing but fundedAmount: the ids are the same in the same
\* order, every need keeps its name, targetAmount, dueMonth and status,
\* and no need's fundedAmount goes down.
C18_FundingFrame ==
    Funded =>
        /\ Len(PostNeeds) = Len(PreNeeds)
        /\ [i \in 1..Len(PostNeeds) |-> PostNeeds[i].id] =
              [i \in 1..Len(PreNeeds) |-> PreNeeds[i].id]
        /\ \A i \in 1..Len(PreNeeds) :
              /\ PostNeeds[i].name = PreNeeds[i].name
              /\ PostNeeds[i].target = PreNeeds[i].target
              /\ PostNeeds[i].dueMonth = PreNeeds[i].dueMonth
              /\ PostNeeds[i].status = PreNeeds[i].status
              /\ PostNeeds[i].paidMonth = PreNeeds[i].paidMonth
              /\ toNumber(PostNeeds[i].funded) >= toNumber(PreNeeds[i].funded)
        /\ [state.cashflow EXCEPT !.needs = PreNeeds] = last.pre.cashflow

\* money was handed out to a list of three needs that the action's
\* sorting puts in another order
C18_Witness ==
    /\ Funded
    /\ Len(PreNeeds) = 3
    /\ sortNeeds(PreNeeds) # PreNeeds
    /\ \E i \in 1..Len(PreNeeds) : Increase(i) > 0
    /\ \E i \in 1..Len(PreNeeds) : Increase(i) = 0

\* C19: in every state 0 <= allocatedToNeedsThisMonth <=
\* remainingNeedsInWindow, allocatedToNeedsThisMonth <= max(0,
\* availableAfterRequired), giving + lifestyle + allocated + excess is the
\* total inflow, and excess is negative exactly when availableAfterRequired
\* is.
C19_AmountsAccountForInflow ==
    LET cf == state.cashflow
        total == toNumber(cf.businessIn) + toNumber(cf.w2In)
        avail == total - givingAmount(cf) - toNumber(cf.lifestyleMonthly)
        allocated == allocateToNeeds(state.month, cf)
        left == excess(state.month, cf)
    IN  /\ 0 <= allocated
        /\ allocated <= remainingTotal(state.month, cf)
        /\ allocated <= Max(0, avail)
        /\ avail = availableAfterRequired(cf)
        /\ givingAmount(cf) + toNumber(cf.lifestyleMonthly) + allocated + left = total
        /\ (left < 0) = (avail < 0)
        /\ avail < 0 => left = avail

\* the lifestyle amount is more than the inflow while needs are open
C19_Witness ==
    /\ inflow(state.cashflow) > 0
    /\ availableAfterRequired(state.cashflow) < 0
    /\ excess(state.month, state.cashflow) < 0
    /\ remainingTotal(state.month, state.cashflow) > 0
    /\ allocateToNeeds(state.month, state.cashflow) = 0

\* C20: month arithmetic is consistent across year boundaries: monthAdd(a,
\* n) is a month with month number in 1..12, monthDiff(a, monthAdd(a, n))
\* is n, monthDiff(a, b) is -monthDiff(b, a) and monthDiff(a, a) is 0;
\* monthAdd("2026-12", 1) is "2027-01" and monthAdd("2026-01", -1) is
\* "2025-12".
C20_MonthArithmetic ==
    /\ last.op = "monthAdd" =>
          /\ last.arg.out.m \in 1..12
          /\ last.arg.out.y \in Int
          /\ (last.arg.out.y - last.pre.y) * 12 + (last.arg.out.m - last.pre.m) = last.arg.n
          /\ monthDiff(last.pre, last.arg.out) = last.arg.n
          /\ monthDiff(last.arg.out, last.pre) = 0 - last.arg.n
          /\ (last.pre = Month(2026, 12) /\ last.arg.n = 1) => last.arg.out = Month(2027, 1)
          /\ (last.pre = Month(2026, 1) /\ last.arg.n = 0 - 1) => last.arg.out = Month(2025, 12)
    /\ last.op = "monthDiff" =>
          /\ last.arg.out = 0 - monthDiff(last.arg.b, last.pre)
          /\ last.arg.b = last.pre => last.arg.out = 0
          /\ (last.pre = Month(2026, 1) /\ last.arg.b = Month(2026, 6)) => last.arg.out = 5
          /\ monthAdd(last.pre, last.arg.out) = last.arg.b

\* one month back from January 2026
C20_Witness ==
    /\ last.op = "monthAdd"
    /\ last.pre = Month(2026, 1)
    /\ last.arg.n = 0 - 1
    /\ last.arg.out = Month(2025, 12)

\* C21: logging in never overwrites an existing stored document with
\* defaults: while the load of a user's document is still under way, no
\* write carrying the default state is under way for that user whose
\* stored document is another one.
C21_LoginKeepsStoredDocument ==
    \A i \in 1..Len(writes), j \in 1..Len(loads) :
        ~ ( /\ writes[i].user = loads[j].user
            /\ writes[i].doc = defaultState
            /\ store[writes[i].user].has
            /\ store[writes[i].user].doc # defaultState )

\* C22: a manual override of businessInflow survives navigation: after the
\* user has typed businessInflow in the Cash Flow tool it holds the typed
\* amount, and coming back to Cash Flow from another tool with the
\* working-capital inputs and the suggestion unchanged leaves it as it was
\* when the user left.
C22_OverrideSurvivesNavigation ==
    /\ []( (last.op = "setBusinessIn" /\ CashflowOpen) =>
              toNumber(state.cashflow.businessIn) = toNumber(last.arg) )
    /\ [][ ( /\ last'.op = "setActiveTool"
             /\ state'.activeTool = "cashflow"
             /\ state.cashflow.businessIn.k # "empty"
             /\ state'.workingCapital = state.workingCapital
             /\ state'.suggestedBusinessIn = state.suggestedBusinessIn )
           => state'.cashflow.businessIn = state.cashflow.businessIn ]_vars

\* what has been set aside over all the needs
TotalFunded(needs) == SumSeq([i \in 1..Len(needs) |-> toNumber(needs[i].funded)])

\* C23: repeating the funding action in one viewed month with nothing
\* edited in between never earmarks more than the month's cash: the
\* increase of fundedAmount over one invocation, and over two in a row, is
\* at most max(0, availableAfterRequired), and after an invocation the
\* increase so far plus the displayed excess is at most
\* availableAfterRequired.
C23_RepeatedFundingBounded ==
    /\ []( Funded =>
            LET inc == TotalFunded(PostNeeds) - TotalFunded(PreNeeds)
            IN  /\ inc <= Max(0, availableAfterRequired(state.cashflow))
                /\ inc + excess(state.month, state.cashflow)
                      <= availableAfterRequired(state.cashflow) )
    /\ [][ (last.op = "fund" /\ last'.op = "fund") =>
            LET inc == TotalFunded(state'.cashflow.needs) - TotalFunded(PreNeeds)
            IN  /\ state'.month = PreMonth
                /\ availableAfterRequired(state'.cashflow) =
                      availableAfterRequired(last.pre.cashflow)
                /\ inc <= Max(0, availableAfterRequired(state'.cashflow))
                /\ inc + excess(state'.month, state'.cashflow)
                      <= availableAfterRequired(state'.cashflow) ]_vars

\* C24: state never crosses users: no write to user B's document carries
\* the needs and cash-flow inputs, the working-capital inputs or the
\* completion flags of user A's session.
C24_NoStateAcrossUsers ==
    \A i \in 1..Len(writes) :
        writes[i].user = "B" =>
            /\ writes[i].doc.cashflow # SavedCf.cashflow
            /\ writes[i].doc.workingCapital # SavedCf.workingCapital
            /\ writes[i].doc.transferDone # SavedCf.transferDone

\* C25: the store converges to the in-memory state: whenever the status
\* shows "Saved" with no timer armed and no write in flight the stored
\* document of the signed-in user equals the in-memory state, and once the
\* user has stopped editing the stored document eventually equals the
\* in-memory state and stays equal, two writes in flight completing in
\* either order included.
C25_StoreConverges ==
    /\ []( ( /\ session # NoSession
             /\ saveStatus = "Saved"
             /\ timer = NoTimer
             /\ writes = <<>> )
           => store[session] = Doc(state) )
    /\ <>[]( session # NoSession /\ store[session] = Doc(state) )

====
